---- MODULE Spec2Model ----
(***************************************************************************)
(* Extraction-coordination store of indexify (src/src/persistence.rs):     *)
(* the content table, the extraction_event outbox and the completion map   *)
(* kept in each content row, as Repository's methods read and write them.  *)
(*                                                                         *)
(* Tables are sets of rows.  A transaction keeps its uncommitted rows in   *)
(* txn[p] until it commits; every other operation is one SQL statement     *)
(* (or a read followed by a write of one column) and is one action.        *)
(***************************************************************************)
EXTENDS Integers, Sequences, FiniteSets, TLC

VARIABLES
    content,    \* table content
    events,     \* table extraction_event
    txn,        \* the open add_content transaction of each caller
    now,        \* SystemTime::now(), in seconds
    lastOp,     \* the last call that returned, with what it returned
    completed,  \* history: the (content id, binding id) pairs of the rows
                \* mark_content_as_processed has updated
    work,       \* table work
    workDone,   \* history: the ids of the work rows update_work_state has
                \* set to Completed
    repos,      \* table data_repository
    indexes,    \* table index
    vectordb,   \* the indexes the vector-index collaborator holds
    idxTxn,     \* the open create_vector_index transaction of each caller
    attributes, \* table attributes_index
    chunks      \* table index_chunks

queueVars == <<work, workDone>>
corpusVars == <<repos>>
indexVars == <<indexes, vectordb, idxTxn>>
outputVars == <<attributes, chunks>>

vars == <<content, events, txn, now, lastOp, completed,
          work, workDone, repos, indexes, vectordb, idxTxn,
          attributes, chunks>>

----------------------------------------------------------------------------
(* Bounds of the model *)

\* rows the extraction_event table may hold
MaxEvents == 3
\* items of one add_content call
MaxBatch == 2
\* seconds the clock may reach
MaxTime == 2
\* rows of extraction_event the upserts of repositories may write
MaxCorpusEvents == 4

----------------------------------------------------------------------------
(* Values *)

\* Option<T>
None == <<>>
Some(x) == <<x>>

\* serde_json::Value, by its literal: a string "1" and a number 1 differ
\* in kind only
JString(s) == [kind |-> "string", lit |-> s]
JNumber(s) == [kind |-> "number", lit |-> s]
JNull == [kind |-> "null", lit |-> "null"]

\* HashMap<String, serde_json::Value>
EmptyMap == [k \in {} |-> JNull]

\* DefaultHasher over the hashed strings, printed as hex: equal tuples give
\* equal ids, different tuples different ids
HashId(parts) == parts

Procs == {"p1", "p2"}

----------------------------------------------------------------------------
(* Domain structs *)

Eq(field, value) == [op |-> "Eq", field |-> field, value |-> value]
Neq(field, value) == [op |-> "Neq", field |-> field, value |-> value]

ExtractorBinding_new(repository, extractor_name, index_name, filters, input_params) ==
    [id |-> HashId(<<repository, extractor_name, index_name>>),
     extractor_name |-> extractor_name,
     index_name |-> index_name,
     filters |-> filters,
     input_params |-> input_params]

Text_from_text(repository, text, metadata) ==
    [id |-> HashId(<<repository, text>>), text |-> text, metadata |-> metadata]

\* json!(ExtractorBindingsState::default()): {"state": {}}
ExtractorBindingsState_default == [b \in {} |-> 0]

\* entity::content::ActiveModel built for one Text
ContentModel(repository_name, text) ==
    [id |-> text.id,
     repository_id |-> repository_name,
     text |-> text.text,
     metadata |-> text.metadata,
     content_type |-> "text",
     extractor_bindings_state |-> ExtractorBindingsState_default]

\* ExtractionEvent with payload CreateContent, as json!() stores it
CreateContentEvent(id, repository_name, content_id) ==
    [id |-> id,
     repository_id |-> repository_name,
     payload |-> [tag |-> "CreateContent", content_id |-> content_id]]

\* entity::extraction_event::ActiveModel: a column NotSet is NULL
EventModel(extraction_event) ==
    [id |-> extraction_event.id,
     payload |-> extraction_event,
     allocation_info |-> None,
     processed_at |-> None]

----------------------------------------------------------------------------
(* Store primitives *)

Ids(rows) == {r.id : r \in rows}

SeqRange(s) == {s[i] : i \in 1..Len(s)}

\* INSERT ... ON CONFLICT (id) DO NOTHING of a list of rows: a row is
\* inserted unless the table, or an earlier row of the list, has its id
RECURSIVE InsertManyDoNothing(_, _)
InsertManyDoNothing(table, list) ==
    IF list = <<>> THEN {}
    ELSE LET row == Head(list)
             new == IF row.id \in Ids(table) THEN {} ELSE {row}
         IN  new \cup InsertManyDoNothing(table \cup new, Tail(list))

\* nanoid!(): an id no row of the table has
RECURSIVE FreshIds(_, _)
FreshIds(used, n) ==
    IF n = 0 THEN <<>>
    ELSE LET id == CHOOSE i \in 1..(Cardinality(used) + 1) : i \notin used
         IN  <<id>> \o FreshIds(used \cup {id}, n - 1)

\* the extraction_events list of add_content: one event per item of texts
ExtractionEventsFor(repository_name, texts, ids) ==
    {EventModel(CreateContentEvent(ids[i], repository_name, texts[i].id)) :
        i \in 1..Len(texts)}

\* rows inserted and not yet committed by the transactions other than p
PendingOfOthers(p) == UNION {txn[q].inserted : q \in Procs \ {p}}

\* events the open transactions other than p are about to insert
PendingEventsOfOthers(p) ==
    LET others == {q \in Procs \ {p} : txn[q].pc = "events"}
        RECURSIVE Sum(_)
        Sum(S) == IF S = {} THEN 0
                  ELSE LET q == CHOOSE x \in S : TRUE
                       IN  Len(txn[q].texts) + Sum(S \ {q})
    IN  Sum(others)

Idle == [pc |-> "idle", repository_name |-> "", texts |-> <<>>, inserted |-> {}]

\* no create_vector_index transaction open
IdxIdle == [pc |-> "idle", index |-> None, params |-> None, inserted |-> {}]

----------------------------------------------------------------------------
(* Inputs *)

Topic(v) == [k \in {"topic"} |-> v]

TextHello == Text_from_text("r1", "hello", Topic(JString("pipe")))
TextWorld == Text_from_text("r1", "world", Topic(JString("baz")))

OutboxTexts == {TextHello, TextWorld}

Batches(items) == UNION {[1..n -> items] : n \in 1..MaxBatch}

----------------------------------------------------------------------------
(* Repository::add_content *)

\* the content insert of the transaction: on RecordNotInserted (no row was
\* inserted) the closure returns Ok and the transaction commits nothing
AddContentInsert(p, repository_name, texts) ==
    /\ txn[p].pc = "idle"
    /\ Cardinality(events) + PendingEventsOfOthers(p) + Len(texts) <= MaxEvents
    /\ LET content_list == [i \in 1..Len(texts) |-> ContentModel(repository_name, texts[i])]
           inserted == InsertManyDoNothing(content, content_list)
       IN  \* a row another open transaction inserted blocks the statement
           /\ Ids(SeqRange(content_list)) \cap Ids(PendingOfOthers(p)) = {}
           /\ IF inserted = {}
              THEN /\ txn' = txn
                   /\ lastOp' = [op |-> "add_content", proc |-> p,
                                 arg |-> Ids(SeqRange(content_list)),
                                 at |-> "content", res |-> "Ok"]
              ELSE /\ txn' = [txn EXCEPT ![p] =
                                [pc |-> "events",
                                 repository_name |-> repository_name,
                                 texts |-> texts,
                                 inserted |-> inserted]]
                   /\ lastOp' = lastOp
    /\ UNCHANGED <<content, events, now, completed, queueVars, corpusVars, indexVars, outputVars>>

\* the content insert fails with another DbErr: the transaction is rolled
\* back and the error is returned as LogicError
AddContentInsertErr(p, repository_name, texts) ==
    /\ txn[p].pc = "idle"
    /\ lastOp' = [op |-> "add_content", proc |-> p,
                  arg |-> {texts[i].id : i \in 1..Len(texts)},
                  at |-> "content", res |-> "LogicError"]
    /\ UNCHANGED <<content, events, txn, now, completed, queueVars, corpusVars, indexVars, outputVars>>

\* rows of the two tables when the transaction of p commits
CommitContent(p) == content \cup txn[p].inserted

CommitEvents(p) ==
    events \cup ExtractionEventsFor(txn[p].repository_name, txn[p].texts,
                                    FreshIds(Ids(events), Len(txn[p].texts)))

\* the event insert succeeds and the transaction commits
AddContentEvents(p) ==
    /\ txn[p].pc = "events"
    /\ content' = CommitContent(p)
    /\ events' = CommitEvents(p)
    /\ txn' = [txn EXCEPT ![p] = Idle]
    /\ lastOp' = [op |-> "add_content", proc |-> p,
                  arg |-> {txn[p].texts[i].id : i \in 1..Len(txn[p].texts)},
                  at |-> "events", res |-> "Ok"]
    /\ UNCHANGED <<now, completed, queueVars, corpusVars, indexVars, outputVars>>

\* a rollback that keeps the content rows the transaction inserted
RollbackContentKeepsRows(p) == content \cup txn[p].inserted

\* rows of the content table when the event insert of p fails
RollbackContent(p) == content

\* the event insert (or the commit) fails: `?` leaves the closure, the
\* transaction is rolled back and add_content returns LogicError
AddContentEventsErr(p) ==
    /\ txn[p].pc = "events"
    /\ content' = RollbackContent(p)
    /\ txn' = [txn EXCEPT ![p] = Idle]
    /\ lastOp' = [op |-> "add_content", proc |-> p,
                  arg |-> {txn[p].texts[i].id : i \in 1..Len(txn[p].texts)},
                  at |-> "events", res |-> "LogicError"]
    /\ UNCHANGED <<events, now, completed, queueVars, corpusVars, indexVars, outputVars>>

----------------------------------------------------------------------------
(* Outbox *)

\* serde_json::from_value::<ExtractionEvent>(payload)
DecodeEvent(payload) ==
    IF /\ DOMAIN payload = {"id", "repository_id", "payload"}
       /\ payload.payload.tag \in {"CreateContent", "ExtractorBindingAdded"}
    THEN Some(payload)
    ELSE None

\* a poll that fetches one row only (LIMIT 1)
UnprocessedRowsLimitOne(table) ==
    LET rows == {e \in table : e.processed_at = None}
    IN  IF rows = {} THEN {}
        ELSE {CHOOSE e \in rows : \A f \in rows : e.id <= f.id}

\* a poll that leaves out the rows whose payload does not decode
UnprocessedExtractionEventsSkipping(table) ==
    [res |-> "Ok",
     events |-> {DecodeEvent(e.payload)[1] :
                    e \in {x \in {y \in table : y.processed_at = None} :
                             DecodeEvent(x.payload) # None}}]

\* Repository::unprocessed_extraction_events: the rows with processed_at
\* NULL, decoded; one payload that does not decode fails the call
UnprocessedRows(table) == {e \in table : e.processed_at = None}

UnprocessedExtractionEvents(table) ==
    IF \E e \in UnprocessedRows(table) : DecodeEvent(e.payload) = None
    THEN [res |-> "Err", events |-> {}]
    ELSE [res |-> "Ok",
          events |-> {DecodeEvent(e.payload)[1] : e \in UnprocessedRows(table)}]

Poll ==
    /\ lastOp' = [op |-> "poll", proc |-> "consumer", arg |-> None,
                  at |-> "", res |-> UnprocessedExtractionEvents(events)]
    /\ UNCHANGED <<content, events, txn, now, completed, queueVars, corpusVars, indexVars, outputVars>>

\* SystemTime::now() in seconds
Tick ==
    /\ now < MaxTime
    /\ now' = now + 1
    /\ UNCHANGED <<content, events, txn, lastOp, completed, queueVars, corpusVars, indexVars, outputVars>>

\* an update that toggles the marker of a row already marked
MarkedRowToggle(e, t) ==
    [e EXCEPT !.processed_at = IF e.processed_at = None THEN Some(t) ELSE None]

\* the row as update() writes it: processed_at = Some(now)
MarkedRow(e, t) == [e EXCEPT !.processed_at = Some(t)]

\* a consumer that deletes the row it has processed
EventsAfterMarkDelete(table, extraction_id, t) ==
    {e \in table : e.id # extraction_id}

\* the table after UPDATE extraction_event SET processed_at = t WHERE id = ..
EventsAfterMark(table, extraction_id, t) ==
    {IF e.id = extraction_id THEN MarkedRow(e, t) ELSE e : e \in table}

\* Repository::mark_extraction_event_as_processed: find the row (unwrap
\* panics when there is none), set processed_at to the current time
MarkEvent(extraction_id) ==
    /\ IF \E e \in events : e.id = extraction_id
       THEN /\ events' = EventsAfterMark(events, extraction_id, now)
            /\ lastOp' = [op |-> "mark_event", proc |-> "consumer",
                          arg |-> extraction_id, at |-> "", res |-> "Ok"]
       ELSE /\ events' = events
            /\ lastOp' = [op |-> "mark_event", proc |-> "consumer",
                          arg |-> extraction_id, at |-> "", res |-> "panic"]
    /\ UNCHANGED <<content, txn, now, completed, queueVars, corpusVars, indexVars, outputVars>>

\* a row of extraction_event whose payload column, which takes any JSON
\* value, holds an object that is no ExtractionEvent (it has no payload
\* field): written by another writer of the table
ForeignEventModel(id) ==
    [id |-> id,
     payload |-> [id |-> id, repository_id |-> "r1"],
     allocation_info |-> None,
     processed_at |-> None]

StoreForeignEvent ==
    /\ Cardinality(events) < MaxCorpusEvents
    /\ events' = events \cup {ForeignEventModel(FreshIds(Ids(events), 1)[1])}
    /\ lastOp' = [op |-> "foreign_event", proc |-> "other", arg |-> None,
                  at |-> "", res |-> "Ok"]
    /\ UNCHANGED <<content, txn, now, completed, queueVars, corpusVars, indexVars,
                   outputVars>>

----------------------------------------------------------------------------
(* Completion tracking *)

\* an update that writes the whole value: the other keys are lost
SetKeyWholeValue(m, k, v) == [x \in {k} |-> v]

\* jsonb subscript assignment m[k] = v: the other keys of m are kept
SetKey(m, k, v) == [x \in DOMAIN m \cup {k} |-> IF x = k THEN v ELSE m[x]]

\* update content set extractor_bindings_state['state'][$2] = '1' where id=$1
ContentAfterMark(table, content_id, binding_id) ==
    {IF r.id = content_id
        THEN [r EXCEPT !.extractor_bindings_state = SetKey(@, binding_id, 1)]
        ELSE r : r \in table}

\* Repository::mark_content_as_processed: one UPDATE statement; a statement
\* that matches no row is Ok as well
MarkContent(content_id, binding_id) ==
    /\ content' = ContentAfterMark(content, content_id, binding_id)
    /\ completed' = IF content_id \in Ids(content)
                    THEN completed \cup {<<content_id, binding_id>>}
                    ELSE completed
    /\ lastOp' = [op |-> "mark_content", proc |-> "worker",
                  arg |-> <<content_id, binding_id>>, at |-> "", res |-> "Ok"]
    /\ UNCHANGED <<events, txn, now, queueVars, corpusVars, indexVars, outputVars>>

\* SQL's three truth values
SqlAnd(a, b) ==
    IF a = "false" \/ b = "false" THEN "false"
    ELSE IF a = "null" \/ b = "null" THEN "null"
    ELSE "true"

\* a = b and a != b on nullable operands (None is NULL)
SqlEq(a, b) ==
    IF a = None \/ b = None THEN "null"
    ELSE IF a[1] = b[1] THEN "true" ELSE "false"

SqlNeq(a, b) ==
    IF a = None \/ b = None THEN "null"
    ELSE IF a[1] # b[1] THEN "true" ELSE "false"

\* a lookup that gives the empty text for a missing or null entry
JsonArrowTextOrEmpty(map, key) ==
    IF key \in DOMAIN map /\ map[key].kind # "null"
    THEN Some(map[key].lit)
    ELSE Some("")

\* json ->> key: the member as text, NULL when the key is absent or the
\* member is the JSON null
JsonArrowText(map, key) ==
    IF key \in DOMAIN map /\ map[key].kind # "null"
    THEN Some(map[key].lit)
    ELSE None

\* serde_json::Value::as_str
as_str(value) == IF value.kind = "string" THEN Some(value.lit) ELSE None

\* the comparison written <= 1
MarkerAtMostOne(row, binding_id) ==
    LET m == row.extractor_bindings_state
        coalesced == IF binding_id \in DOMAIN m THEN m[binding_id] ELSE 0
    IN  IF coalesced <= 1 THEN "true" ELSE "false"

\* COALESCE(cast(extractor_bindings_state->'state'->>$2 as int), 0) < 1
MarkerBelowOne(row, binding_id) ==
    LET m == row.extractor_bindings_state
        marker == IF binding_id \in DOMAIN m THEN Some(m[binding_id]) ELSE None
        coalesced == IF marker = None THEN 0 ELSE marker[1]
    IN  IF coalesced < 1 THEN "true" ELSE "false"

\* both kinds of filter compiled to "="
FilterClauseAlwaysEq(row, filter) ==
    SqlEq(JsonArrowText(row.metadata, filter.field), as_str(filter.value))

\* the clause one filter appends to the query
FilterClause(row, filter) ==
    IF filter.op = "Eq"
    THEN SqlEq(JsonArrowText(row.metadata, filter.field), as_str(filter.value))
    ELSE SqlNeq(JsonArrowText(row.metadata, filter.field), as_str(filter.value))

\* the clauses of the filters, joined by "and" in the order of the list
RECURSIVE FiltersWhere(_, _)
FiltersWhere(row, filters) ==
    IF filters = <<>> THEN "true"
    ELSE SqlAnd(FilterClause(row, Head(filters)), FiltersWhere(row, Tail(filters)))

\* the optional " and id = $3"
IdClause(row, content_id) ==
    IF content_id = None THEN "true" ELSE SqlEq(Some(row.id), content_id)

\* the WHERE of content_with_unapplied_extractor on one row
UnappliedWhere(row, repo_id, extractor_binding, content_id) ==
    SqlAnd(SqlEq(Some(row.repository_id), Some(repo_id)),
    SqlAnd(MarkerBelowOne(row, extractor_binding.id),
    SqlAnd(IdClause(row, content_id),
           FiltersWhere(row, extractor_binding.filters))))

\* Repository::content_with_unapplied_extractor: value.as_str().unwrap()
\* panics on a filter value that is no string, before the query is sent
ContentWithUnappliedExtractor(table, repo_id, extractor_binding, content_id) ==
    IF \E i \in 1..Len(extractor_binding.filters) :
           as_str(extractor_binding.filters[i].value) = None
    THEN [res |-> "panic", rows |-> {}]
    ELSE [res |-> "Ok",
          rows |-> {r \in table :
                      UnappliedWhere(r, repo_id, extractor_binding, content_id) = "true"}]

Find(repo_id, extractor_binding, content_id) ==
    /\ lastOp' = [op |-> "find", proc |-> "worker",
                  arg |-> [repo_id |-> repo_id, binding |-> extractor_binding,
                           content_id |-> content_id],
                  at |-> "",
                  res |-> ContentWithUnappliedExtractor(content, repo_id,
                                                        extractor_binding, content_id)]
    /\ UNCHANGED <<content, events, txn, now, completed, queueVars, corpusVars, indexVars, outputVars>>

----------------------------------------------------------------------------
(* Inputs of the completion tracker *)

TextNumber == Text_from_text("r1", "number", Topic(JNumber("1")))
TextBare == Text_from_text("r1", "bare", EmptyMap)
TextOther == Text_from_text("r2", "hello", Topic(JNull))

TrackerTexts == {TextHello, TextNumber, TextBare, TextOther}

\* the repository a text was derived for
RepoOf(text) == text.id[1]

Repos == {"r1", "r2"}

NoParams == JNull

BindingEq ==
    ExtractorBinding_new("r1", "e1", "i1", <<Eq("topic", JString("pipe"))>>, NoParams)
BindingNeq ==
    ExtractorBinding_new("r1", "e1", "i2", <<Neq("topic", JString("pipe"))>>, NoParams)
BindingBoth ==
    ExtractorBinding_new("r1", "e1", "i2",
        <<Neq("topic", JString("pipe")), Eq("topic", JString("1"))>>, NoParams)
BindingAll ==
    ExtractorBinding_new("r1", "e1", "i1", <<>>, NoParams)

Bindings == {BindingEq, BindingNeq, BindingBoth, BindingAll}

BindingIds == {b.id : b \in Bindings}

ContentIdArgs == {None, Some(TextNumber.id), Some(TextBare.id)}

\* the calls of find the worker makes in the model
FindCalls ==
    {<<"r1", BindingEq, None>>, <<"r1", BindingNeq, None>>,
     <<"r2", BindingAll, Some(TextNumber.id)>>}

\* a binding whose filter value is a JSON number
BindingNumber ==
    ExtractorBinding_new("r1", "e1", "i3", <<Eq("topic", JNumber("1"))>>, NoParams)

FilterTexts == {TextHello, TextNumber, TextBare}

\* the calls of find that exercise the filters
FilterCalls ==
    {<<"r1", BindingEq, None>>, <<"r1", BindingNeq, None>>,
     <<"r1", BindingBoth, Some(TextBare.id)>>, <<"r1", BindingNumber, None>>}

----------------------------------------------------------------------------
(* Job queue *)

WorkStates == {"Unknown", "Pending", "InProgress", "Completed", "Failed"}

\* a Work whose id also hashes the worker it is given to
Work_newHashingWorker(content_id, repository, index_name, extractor, extractor_params, worker_id) ==
    [id |-> HashId(<<content_id, repository, index_name, extractor, worker_id>>),
     content_id |-> content_id,
     repository_id |-> repository,
     index_name |-> index_name,
     extractor |-> extractor,
     extractor_params |-> extractor_params,
     work_state |-> "Pending",
     worker_id |-> worker_id]

Work_new(content_id, repository, index_name, extractor, extractor_params, worker_id) ==
    [id |-> HashId(<<content_id, repository, index_name, extractor>>),
     content_id |-> content_id,
     repository_id |-> repository,
     index_name |-> index_name,
     extractor |-> extractor,
     extractor_params |-> extractor_params,
     work_state |-> "Pending",
     worker_id |-> worker_id]

\* a row written with the default state and no worker, whatever the Work holds
WorkModelDefaults(w) ==
    [id |-> w.id,
     state |-> "Unknown",
     worker_id |-> None,
     content_id |-> w.content_id,
     index_name |-> w.index_name,
     extractor |-> w.extractor,
     extractor_params |-> w.extractor_params,
     repository_id |-> w.repository_id]

\* entity::work::ActiveModel built from a Work
WorkModel(w) ==
    [id |-> w.id,
     state |-> w.work_state,
     worker_id |-> w.worker_id,
     content_id |-> w.content_id,
     index_name |-> w.index_name,
     extractor |-> w.extractor,
     extractor_params |-> w.extractor_params,
     repository_id |-> w.repository_id]

\* impl From<work::Model> for Work
WorkFromModel(m) ==
    [id |-> m.id,
     content_id |-> m.content_id,
     repository_id |-> m.repository_id,
     index_name |-> m.index_name,
     extractor |-> m.extractor,
     extractor_params |-> m.extractor_params,
     work_state |-> m.state,
     worker_id |-> m.worker_id]

\* Repository::insert_work: a plain INSERT; a row with the id of the work
\* violates the primary key and the DbErr is returned
InsertWork(w) ==
    /\ IF w.id \in Ids(work)
       THEN /\ work' = work
            /\ lastOp' = [op |-> "insert_work", proc |-> "planner", arg |-> w,
                          at |-> "", res |-> "DatabaseError"]
       ELSE /\ work' = work \cup {WorkModel(w)}
            /\ lastOp' = [op |-> "insert_work", proc |-> "planner", arg |-> w,
                          at |-> "", res |-> "Ok"]
    /\ UNCHANGED <<content, events, txn, now, completed, workDone, corpusVars, indexVars, outputVars>>

\* the query without its filter on state
UnallocatedWorkAnyState(table) == {x \in table : x.worker_id = None}

\* the query without its filter on worker_id
UnallocatedWorkAnyWorker(table) == {m \in table : m.state = "Pending"}

\* Repository::unallocated_work: worker_id IS NULL and state = 'Pending'
UnallocatedWork(table) ==
    {m \in {x \in table : x.worker_id = None} : m.state = "Pending"}

Unallocated ==
    /\ lastOp' = [op |-> "unallocated_work", proc |-> "scheduler", arg |-> None,
                  at |-> "", res |-> UnallocatedWork(work)]
    /\ UNCHANGED <<content, events, txn, now, completed, queueVars, corpusVars, indexVars, outputVars>>

\* an assignment that puts the row back to Pending
AssignedRowReset(m, executor_id) ==
    [m EXCEPT !.worker_id = Some(executor_id), !.state = "Pending"]

\* an assignment that leaves a row that has a worker as it is
AssignedRowIfFree(m, executor_id) ==
    IF m.worker_id = None THEN [m EXCEPT !.worker_id = Some(executor_id)] ELSE m

\* the row after UPDATE work SET worker_id = executor_id
AssignedRow(m, executor_id) == [m EXCEPT !.worker_id = Some(executor_id)]

\* Repository::assign_work: one UPDATE ... WHERE id = work_id for each entry
\* of the allocation
AssignWork(allocation) ==
    /\ work' = {IF m.id \in DOMAIN allocation
                   THEN AssignedRow(m, allocation[m.id]) ELSE m : m \in work}
    /\ lastOp' = [op |-> "assign_work", proc |-> "scheduler", arg |-> allocation,
                  at |-> "", res |-> "Ok"]
    /\ UNCHANGED <<content, events, txn, now, completed, workDone, corpusVars, indexVars, outputVars>>

\* an update that leaves a Completed or Failed row as it is
WorkAfterUpdateGuarded(table, work_id, state) ==
    {IF m.id = work_id /\ m.state \notin {"Completed", "Failed"}
        THEN [m EXCEPT !.state = state] ELSE m : m \in table}

\* the table after UPDATE work SET state = .. WHERE id = work_id
WorkAfterUpdate(table, work_id, state) ==
    {IF m.id = work_id THEN [m EXCEPT !.state = state] ELSE m : m \in table}

\* Repository::update_work_state: an unconditional UPDATE
UpdateWorkState(work_id, state) ==
    /\ work' = WorkAfterUpdate(work, work_id, state)
    /\ workDone' = IF state = "Completed" /\ work_id \in Ids(work)
                   THEN workDone \cup {work_id} ELSE workDone
    /\ lastOp' = [op |-> "update_work_state", proc |-> "worker",
                  arg |-> <<work_id, state>>, at |-> "", res |-> "Ok"]
    /\ UNCHANGED <<content, events, txn, now, completed, corpusVars, indexVars, outputVars>>

\* the query without its filter on state
WorkForWorkerAnyState(table, worker_id) ==
    {WorkFromModel(m) : m \in {x \in table : x.worker_id = Some(worker_id)}}

\* Repository::work_for_worker: worker_id = .. and state = 'Pending', each
\* row converted into a Work
WorkForWorker(table, worker_id) ==
    {WorkFromModel(m) :
        m \in {y \in {x \in table : x.worker_id = Some(worker_id)} : y.state = "Pending"}}

ForWorker(worker_id) ==
    /\ lastOp' = [op |-> "work_for_worker", proc |-> "worker", arg |-> worker_id,
                  at |-> "", res |-> WorkForWorker(work, worker_id)]
    /\ UNCHANGED <<content, events, txn, now, completed, queueVars, corpusVars, indexVars, outputVars>>

(* Inputs of the job queue *)

Workers == {"w1", "w2"}

\* the works the planner builds: two contents for one binding, with no
\* worker or with a worker given to Work::new
WorkInputs ==
    {Work_new(c, "r1", "i1", "e1", p, w) :
        c \in {TextHello.id, TextWorld.id}, p \in {JNull}, w \in {None, Some("w1")}}

WorkIds == {w.id : w \in WorkInputs}

Allocations == UNION {[S -> Workers] : S \in SUBSET WorkIds}

----------------------------------------------------------------------------
(* Repositories *)

\* SourceType::Gmail
Gmail == [source |-> [tag |-> "gmail", metadata |-> None]]

DataRepository(name, data_connectors, extractor_bindings, metadata) ==
    [name |-> name,
     data_connectors |-> data_connectors,
     extractor_bindings |-> extractor_bindings,
     metadata |-> metadata]

BindingAddedEvent(id, repository_name, binding_id) ==
    [id |-> id,
     repository_id |-> repository_name,
     payload |-> [tag |-> "ExtractorBindingAdded",
                  repository |-> repository_name,
                  id |-> binding_id]]

\* the HashMap the loop fills: a later entry of the list with the same id
\* replaces an earlier one
BindingsMap(list) ==
    [id \in {list[i].id : i \in DOMAIN list} |->
        LET last == CHOOSE i \in DOMAIN list :
                        /\ list[i].id = id
                        /\ \A j \in DOMAIN list : list[j].id = id => j <= i
        IN  list[last]]

\* events for the bindings the stored row does not hold yet
ExtractorEventModelsNewOnly(repository, ids) ==
    {EventModel(BindingAddedEvent(ids[i], repository.name,
                                  repository.extractor_bindings[i].id)) :
        i \in {j \in DOMAIN repository.extractor_bindings :
                  ~\E r \in repos :
                      /\ r.name = repository.name
                      /\ repository.extractor_bindings[j].id
                            \in DOMAIN r.extractor_bindings[1]}}

\* extractor_event_models: one event per entry of extractor_bindings
ExtractorEventModels(repository, ids) ==
    {EventModel(BindingAddedEvent(ids[i], repository.name,
                                  repository.extractor_bindings[i].id)) :
        i \in DOMAIN repository.extractor_bindings}

\* entity::data_repository::ActiveModel
RepositoryModel(repository) ==
    [name |-> repository.name,
     extractor_bindings |-> Some(BindingsMap(repository.extractor_bindings)),
     metadata |-> Some(repository.metadata),
     data_connectors |-> Some(repository.data_connectors)]

\* impl From<data_repository::Model> for DataRepository: the bindings are
\* the values of the stored map, in no order
RepositoryFromModel(model) ==
    [name |-> model.name,
     extractor_bindings |->
        IF model.extractor_bindings = None THEN {}
        ELSE {model.extractor_bindings[1][id] : id \in DOMAIN model.extractor_bindings[1]},
     data_connectors |->
        IF model.data_connectors = None THEN <<>> ELSE model.data_connectors[1],
     metadata |-> IF model.metadata = None THEN EmptyMap ELSE model.metadata[1]]

\* an upsert that writes every column of the row on a conflict
UpsertedRowsAllColumns(table, row) ==
    {r \in table : r.name # row.name} \cup {row}

\* INSERT .. ON CONFLICT (name) DO UPDATE SET extractor_bindings, metadata
UpsertedRows(table, row) ==
    IF \E r \in table : r.name = row.name
    THEN {IF r.name = row.name
             THEN [r EXCEPT !.extractor_bindings = row.extractor_bindings,
                            !.metadata = row.metadata]
             ELSE r : r \in table}
    ELSE table \cup {row}

\* Repository::upsert_repository, the transaction commits: the row and the
\* events become visible together
UpsertRepositoryCommit(repository) ==
    LET n == Len(repository.extractor_bindings)
    IN  /\ Cardinality(events) + n <= MaxCorpusEvents
        /\ repos' = UpsertedRows(repos, RepositoryModel(repository))
        /\ events' = events \cup
                ExtractorEventModels(repository, FreshIds(Ids(events), n))
        /\ lastOp' = [op |-> "upsert_repository", proc |-> "api", arg |-> repository,
                      at |-> "commit", res |-> "Ok"]
        /\ UNCHANGED <<content, txn, now, completed, queueVars, indexVars, outputVars>>

\* Repository::upsert_repository, a statement of the transaction or its
\* commit fails: the transaction is rolled back, the error is mapped and
\* dropped (let _ = ..) and the call returns Ok(())
UpsertRepositoryRollback(repository) ==
    /\ lastOp' = [op |-> "upsert_repository", proc |-> "api", arg |-> repository,
                  at |-> "rollback", res |-> "Ok"]
    /\ UNCHANGED <<content, events, txn, now, completed, queueVars, corpusVars, indexVars, outputVars>>

\* Repository::repository_by_name
RepositoryByName(name) ==
    /\ lastOp' = [op |-> "repository_by_name", proc |-> "api", arg |-> name,
                  at |-> "",
                  res |-> IF \E r \in repos : r.name = name
                          THEN Some(RepositoryFromModel(
                                        CHOOSE r \in repos : r.name = name))
                          ELSE None]
    /\ UNCHANGED <<content, events, txn, now, completed, queueVars, corpusVars, indexVars, outputVars>>

(* Inputs of the repositories *)

BindingOther == ExtractorBinding_new("r2", "e1", "i1", <<>>, NoParams)

\* the repositories the callers upsert: r1 with two bindings, with one of
\* them and new metadata and connectors, with that binding declared with
\* other filters, with no binding at all; r2 with one binding
Repositories ==
    {DataRepository("r1", <<>>, <<BindingEq, BindingNeq>>, EmptyMap),
     DataRepository("r1", <<Gmail>>, <<BindingEq>>, Topic(JString("pipe"))),
     DataRepository("r1", <<>>, <<BindingAll>>, EmptyMap),
     DataRepository("r1", <<>>, <<>>, EmptyMap),
     DataRepository("r2", <<>>, <<BindingOther>>, EmptyMap)}

RepositoryNames == {r.name : r \in Repositories}

----------------------------------------------------------------------------
(* Indexes *)

\* vectordbs::CreateIndexParams
CreateIndexParams(vectordb_index_name) ==
    [vectordb_index_name |-> vectordb_index_name]

\* entity::index::ActiveModel
IndexModel(repository_name, extractor_name, index_name, index_params) ==
    [name |-> index_name,
     vector_index_name |-> Some(index_params.vectordb_index_name),
     extractor_name |-> extractor_name,
     index_type |-> "embedding",
     repository_id |-> repository_name]

IndexNames(table) == {i.name : i \in table}

\* an insert that puts the row in whatever the table holds
IndexInsertAlways(table, index) == {index}

\* the rows INSERT .. ON CONFLICT (name) DO NOTHING inserts: none when a row
\* of that name is stored
IndexInsertDoNothing(table, index) ==
    IF index.name \in IndexNames(table) THEN {} ELSE {index}

\* index rows inserted and not yet committed by the transactions other than p
PendingIndexesOfOthers(p) == UNION {idxTxn[q].inserted : q \in Procs \ {p}}

\* Repository::create_vector_index, the insert of the transaction:
\* ON CONFLICT (name) DO NOTHING; RecordNotInserted is passed over
CreateIndexInsert(p, repository_name, extractor_name, index_name, index_params) ==
    LET index == IndexModel(repository_name, extractor_name, index_name, index_params)
    IN  /\ idxTxn[p].pc = "idle"
        \* a row of that name another open transaction inserted blocks the statement
        /\ index.name \notin IndexNames(PendingIndexesOfOthers(p))
        /\ idxTxn' = [idxTxn EXCEPT ![p] =
                        [pc |-> "vectordb",
                         index |-> Some(index),
                         params |-> Some(index_params),
                         inserted |-> IndexInsertDoNothing(indexes, index)]]
        /\ UNCHANGED <<content, events, txn, now, lastOp, completed, queueVars,
                       corpusVars, indexes, vectordb, outputVars>>

\* the insert fails with another DbErr: the closure returns DatabaseError,
\* the transaction is rolled back and the call returns LogicError
CreateIndexInsertErr(p, repository_name, extractor_name, index_name, index_params) ==
    /\ idxTxn[p].pc = "idle"
    /\ lastOp' = [op |-> "create_vector_index", proc |-> p,
                  arg |-> [index |-> IndexModel(repository_name, extractor_name,
                                                index_name, index_params),
                           inserted |-> {}],
                  at |-> "insert", res |-> "LogicError"]
    /\ UNCHANGED <<content, events, txn, now, completed, queueVars, corpusVars, indexVars, outputVars>>

\* vectordb.create_index succeeds, the closure returns Ok and the
\* transaction commits
CreateIndexVectorDbOk(p) ==
    /\ idxTxn[p].pc = "vectordb"
    /\ vectordb' = vectordb \cup {idxTxn[p].params[1].vectordb_index_name}
    /\ indexes' = indexes \cup idxTxn[p].inserted
    /\ idxTxn' = [idxTxn EXCEPT ![p] = IdxIdle]
    /\ lastOp' = [op |-> "create_vector_index", proc |-> p,
                  arg |-> [index |-> idxTxn[p].index[1],
                           inserted |-> idxTxn[p].inserted],
                  at |-> "commit", res |-> "Ok"]
    /\ UNCHANGED <<content, events, txn, now, completed, queueVars, corpusVars, outputVars>>

\* a rollback that keeps the index row the transaction inserted
RollbackIndexKeepsRow(p) == indexes \cup idxTxn[p].inserted

\* rows of the index table when the transaction of p is rolled back
RollbackIndex(p) == indexes

\* vectordb.create_index fails: the closure returns VectorDb(err), the
\* transaction is rolled back and the call returns LogicError
CreateIndexVectorDbErr(p) ==
    /\ idxTxn[p].pc = "vectordb"
    /\ indexes' = RollbackIndex(p)
    /\ idxTxn' = [idxTxn EXCEPT ![p] = IdxIdle]
    /\ lastOp' = [op |-> "create_vector_index", proc |-> p,
                  arg |-> [index |-> idxTxn[p].index[1],
                           inserted |-> idxTxn[p].inserted],
                  at |-> "vectordb", res |-> "LogicError"]
    /\ UNCHANGED <<content, events, txn, now, completed, queueVars, corpusVars, vectordb, outputVars>>

\* Repository::get_index
GetIndex(index, repository) ==
    /\ lastOp' = [op |-> "get_index", proc |-> "reader",
                  arg |-> <<index, repository>>, at |-> "",
                  res |-> LET rows == {i \in {x \in indexes : x.name = index} :
                                          i.repository_id = repository}
                          IN  IF rows = {} THEN None
                              ELSE Some(CHOOSE i \in rows : TRUE)]
    /\ UNCHANGED <<content, events, txn, now, completed, queueVars, corpusVars, indexVars, outputVars>>

(* Inputs of the indexes *)

\* the calls of create_vector_index: two indexes of r1, and the name of the
\* first declared again for another extractor
CreateIndexCalls ==
    {<<"r1", "e1", "i1", CreateIndexParams("v1")>>,
     <<"r1", "e1", "i2", CreateIndexParams("v2")>>,
     <<"r1", "e2", "i1", CreateIndexParams("v3")>>}

----------------------------------------------------------------------------
(* Extractor outputs *)

ExtractedAttributes_new(content_id, attrs, extractor_name) ==
    [id |-> HashId(<<content_id, extractor_name>>),
     content_id |-> content_id,
     attributes |-> attrs,
     extractor_name |-> extractor_name]

\* entity::attributes_index::ActiveModel; created_at is always written as
\* zero and is left out
AttributesModel(repository, index_name, extracted_attributes) ==
    [id |-> extracted_attributes.id,
     repository_id |-> repository,
     index_name |-> index_name,
     extractor_id |-> extracted_attributes.extractor_name,
     data |-> extracted_attributes.attributes,
     content_id |-> extracted_attributes.content_id]

\* an insert that keeps the stored row on a conflict
AttributesInsertDoNothing(table, row) ==
    IF row.id \in Ids(table) THEN table ELSE table \cup {row}

\* INSERT .. ON CONFLICT (id) DO UPDATE SET data, created_at
AttributesUpsert(table, row) ==
    IF row.id \in Ids(table)
    THEN {IF r.id = row.id THEN [r EXCEPT !.data = row.data] ELSE r : r \in table}
    ELSE table \cup {row}

\* Repository::add_attributes
AddAttributes(repository, index_name, extracted_attributes) ==
    /\ attributes' = AttributesUpsert(attributes,
                        AttributesModel(repository, index_name, extracted_attributes))
    /\ lastOp' = [op |-> "add_attributes", proc |-> "worker",
                  arg |-> [repository |-> repository, index_name |-> index_name,
                           extracted_attributes |-> extracted_attributes],
                  at |-> "", res |-> "Ok"]
    /\ UNCHANGED <<content, events, txn, now, completed, queueVars, corpusVars,
                   indexVars, chunks>>

\* impl From<attributes_index::Model> for ExtractedAttributes
AttributesFromModel(model) ==
    [id |-> model.id,
     content_id |-> model.content_id,
     attributes |-> model.data,
     extractor_name |-> model.extractor_id]

\* Repository::get_extracted_attributes
GetExtractedAttributes(repository, index, content_id) ==
    /\ lastOp' = [op |-> "get_extracted_attributes", proc |-> "reader",
                  arg |-> [repository |-> repository, index |-> index,
                           content_id |-> content_id],
                  at |-> "",
                  res |-> {AttributesFromModel(r) :
                             r \in {x \in attributes :
                                      /\ x.repository_id = repository
                                      /\ x.index_name = index
                                      /\ content_id # None => x.content_id = content_id[1]}}]
    /\ UNCHANGED <<content, events, txn, now, completed, queueVars, corpusVars,
                   indexVars, outputVars>>

Chunk_new(text, content_id) ==
    [text |-> text,
     chunk_id |-> HashId(<<content_id, text>>),
     content_id |-> content_id]

\* entity::index_chunks::ActiveModel
ChunkModel(chunk, index_name) ==
    [chunk_id |-> chunk.chunk_id,
     content_id |-> chunk.content_id,
     text |-> chunk.text,
     index_name |-> index_name]

ChunkIds(table) == {c.chunk_id : c \in table}

\* an insert that replaces the stored row on a conflict
RECURSIVE ChunksInsertReplace(_, _)
ChunksInsertReplace(table, list) ==
    IF list = <<>> THEN table
    ELSE ChunksInsertReplace(
            {c \in table : c.chunk_id # Head(list).chunk_id} \cup {Head(list)},
            Tail(list))

\* INSERT .. ON CONFLICT (chunk_id) DO NOTHING of a list of rows: the table
\* after the statement
RECURSIVE ChunksInsertDoNothing(_, _)
ChunksInsertDoNothing(table, list) ==
    IF list = <<>> THEN table
    ELSE ChunksInsertDoNothing(
            IF Head(list).chunk_id \in ChunkIds(table)
            THEN table ELSE table \cup {Head(list)},
            Tail(list))

\* Repository::create_chunks: RecordNotInserted (no row was inserted) is
\* passed over and the call returns Ok
CreateChunks(chunk_list, index_name) ==
    /\ chunks' = ChunksInsertDoNothing(chunks,
                    [i \in DOMAIN chunk_list |-> ChunkModel(chunk_list[i], index_name)])
    /\ lastOp' = [op |-> "create_chunks", proc |-> "worker",
                  arg |-> [chunks |-> chunk_list, index_name |-> index_name],
                  at |-> "", res |-> "Ok"]
    /\ UNCHANGED <<content, events, txn, now, completed, queueVars, corpusVars,
                   indexVars, attributes>>

(* Inputs of the extractor outputs *)

\* the outputs of two extractors for one content, each with two values
AttributeInputs ==
    {ExtractedAttributes_new(TextHello.id, a, e) :
        a \in {JString("a"), JString("b")}, e \in {"e1", "e2"}}

IndexNameInputs == {"i1", "i2"}

ChunkA == Chunk_new("a", TextHello.id)
ChunkB == Chunk_new("b", TextHello.id)

ChunkLists == {<<ChunkA>>, <<ChunkB>>, <<ChunkA, ChunkB>>}

----------------------------------------------------------------------------
(* Identity derivation *)

\* the record of one derivation: the strings that are hashed, the other
\* fields given to the constructor, and the id of the value it returns
Derived(kind, inputs, others, id) ==
    [op |-> "derive", proc |-> kind,
     arg |-> [inputs |-> inputs, others |-> others],
     at |-> "", res |-> id]

DeriveContent(repository, text, metadata) ==
    /\ lastOp' = Derived("content", <<repository, text>>, <<metadata>>,
                         Text_from_text(repository, text, metadata).id)
    /\ UNCHANGED <<content, events, txn, now, completed, queueVars, corpusVars,
                   indexVars, outputVars>>

DeriveBinding(repository, extractor_name, index_name, filters, input_params) ==
    /\ lastOp' = Derived("binding", <<repository, extractor_name, index_name>>,
                         <<filters, input_params>>,
                         ExtractorBinding_new(repository, extractor_name, index_name,
                                              filters, input_params).id)
    /\ UNCHANGED <<content, events, txn, now, completed, queueVars, corpusVars,
                   indexVars, outputVars>>

DeriveWork(content_id, repository, index_name, extractor, extractor_params, worker_id) ==
    /\ lastOp' = Derived("work", <<content_id, repository, index_name, extractor>>,
                         <<extractor_params, worker_id>>,
                         Work_new(content_id, repository, index_name, extractor,
                                  extractor_params, worker_id).id)
    /\ UNCHANGED <<content, events, txn, now, completed, queueVars, corpusVars,
                   indexVars, outputVars>>

DeriveAttributes(content_id, attrs, extractor_name) ==
    /\ lastOp' = Derived("attributes", <<content_id, extractor_name>>, <<attrs>>,
                         ExtractedAttributes_new(content_id, attrs, extractor_name).id)
    /\ UNCHANGED <<content, events, txn, now, completed, queueVars, corpusVars,
                   indexVars, outputVars>>

DeriveChunk(text, content_id) ==
    /\ lastOp' = Derived("chunk", <<content_id, text>>, <<>>,
                         Chunk_new(text, content_id).chunk_id)
    /\ UNCHANGED <<content, events, txn, now, completed, queueVars, corpusVars,
                   indexVars, outputVars>>

(* Inputs of the identity derivation *)

TextInputs == {"hello", "world"}
MetadataInputs == {EmptyMap, Topic(JString("pipe"))}
FilterInputs == {<<>>, <<Eq("topic", JString("pipe"))>>}
ParamInputs == {JNull, JString("a")}
WorkerInputs == {None, Some("w1")}
ContentIdInputs == {TextHello.id, TextWorld.id}

----------------------------------------------------------------------------
(* Specification *)

Init ==
    /\ content = {}
    /\ events = {}
    /\ txn = [p \in Procs |-> Idle]
    /\ now = 1
    /\ lastOp = [op |-> "none", proc |-> "", arg |-> None, at |-> "", res |-> "Ok"]
    /\ completed = {}
    /\ work = {}
    /\ workDone = {}
    /\ repos = {}
    /\ indexes = {}
    /\ vectordb = {}
    /\ idxTxn = [p \in Procs |-> IdxIdle]
    /\ attributes = {}
    /\ chunks = {}

Next ==
    \/ \E p \in Procs, texts \in Batches(OutboxTexts) : AddContentInsert(p, "r1", texts)
    \/ \E p \in Procs, texts \in Batches(OutboxTexts) : AddContentInsertErr(p, "r1", texts)
    \/ \E p \in Procs : AddContentEvents(p)
    \/ \E p \in Procs : AddContentEventsErr(p)
    \/ Poll
    \/ Tick
    \/ \E id \in 1..MaxEvents : MarkEvent(id)

Spec == Init /\ [][Next]_vars

\* the completion tracker: one caller ingests single items of two
\* repositories, workers mark and query
NextTracker ==
    \/ \E t \in TrackerTexts : AddContentInsert("p1", RepoOf(t), <<t>>)
    \/ AddContentEvents("p1")
    \/ AddContentEventsErr("p1")
    \/ \E t \in TrackerTexts, b \in BindingIds : MarkContent(t.id, b)
    \/ \E c \in FindCalls : Find(c[1], c[2], c[3])

SpecTracker == Init /\ [][NextTracker]_vars

\* the filters: one caller ingests, a worker queries with each kind of binding
NextFilters ==
    \/ \E t \in FilterTexts : AddContentInsert("p1", "r1", <<t>>)
    \/ AddContentEvents("p1")
    \/ \E c \in FilterCalls : Find(c[1], c[2], c[3])

SpecFilters == Init /\ [][NextFilters]_vars

\* the extractor outputs: workers write attributes and chunks, a reader
\* lists the attributes
NextOutputs ==
    \/ \E i \in IndexNameInputs, a \in AttributeInputs : AddAttributes("r1", i, a)
    \/ \E i \in IndexNameInputs : GetExtractedAttributes("r1", i, None)
    \/ \E l \in ChunkLists, i \in IndexNameInputs : CreateChunks(l, i)

SpecOutputs == Init /\ [][NextOutputs]_vars

\* the identity derivation: every constructor is applied to its inputs,
\* while the planner fills the work table
NextIdentity ==
    \/ \E r \in Repos, t \in TextInputs, m \in MetadataInputs : DeriveContent(r, t, m)
    \/ \E r \in Repos, i \in IndexNameInputs, f \in FilterInputs, q \in ParamInputs :
          DeriveBinding(r, "e1", i, f, q)
    \/ \E c \in ContentIdInputs, q \in ParamInputs, w \in WorkerInputs :
          DeriveWork(c, "r1", "i1", "e1", q, w)
    \/ \E c \in ContentIdInputs, a \in ParamInputs, e \in {"e1", "e2"} :
          DeriveAttributes(c, a, e)
    \/ \E t \in TextInputs, c \in ContentIdInputs : DeriveChunk(t, c)
    \/ \E w \in WorkInputs : InsertWork(w)

SpecIdentity == Init /\ [][NextIdentity]_vars

\* the repository whose upserts fill the outbox of the poll
RepositoryPolled == DataRepository("r1", <<>>, <<BindingEq>>, EmptyMap)

\* the poll: upserts append events, another writer stores a row that does
\* not decode, the consumer polls and marks
NextPoll ==
    \/ UpsertRepositoryCommit(RepositoryPolled)
    \/ StoreForeignEvent
    \/ Poll
    \/ \E id \in 1..MaxCorpusEvents : MarkEvent(id)

SpecPoll == Init /\ [][NextPoll]_vars

\* the job queue: a planner enqueues, a scheduler assigns, workers report
NextQueue ==
    \/ \E w \in WorkInputs : InsertWork(w)
    \/ Unallocated
    \/ \E a \in Allocations : AssignWork(a)
    \/ \E id \in WorkIds, st \in WorkStates : UpdateWorkState(id, st)
    \/ \E wk \in Workers : ForWorker(wk)

SpecQueue == Init /\ [][NextQueue]_vars

\* the repositories: callers upsert and read, the consumer polls the outbox
NextCorpus ==
    \/ \E r \in Repositories : UpsertRepositoryCommit(r)
    \/ \E r \in Repositories : UpsertRepositoryRollback(r)
    \/ \E n \in RepositoryNames : RepositoryByName(n)
    \/ Poll

SpecCorpus == Init /\ [][NextCorpus]_vars

\* the indexes: two callers create, a reader looks an index up
NextIndex ==
    \/ \E p \in Procs, c \in CreateIndexCalls :
          \/ CreateIndexInsert(p, c[1], c[2], c[3], c[4])
          \/ CreateIndexInsertErr(p, c[1], c[2], c[3], c[4])
    \/ \E p \in Procs :
          \/ CreateIndexVectorDbOk(p)
          \/ CreateIndexVectorDbErr(p)
    \/ \E c \in CreateIndexCalls : GetIndex(c[3], c[1])

SpecIndex == Init /\ [][NextIndex]_vars

----------------------------------------------------------------------------
(* Properties of ingestion and of the outbox *)

CreateEventsFor(table, content_id) ==
    {e \in table : /\ e.payload.payload.tag = "CreateContent"
                   /\ e.payload.payload.content_id = content_id}

RowsWithId(table, id) == {r \in table : r.id = id}

Unprocessed(table, id) == \E e \in table : e.id = id /\ e.processed_at = None

\* C1: idempotent ingestion.  Once a Content row with the derived id is in
\* the store, a later ingestion of the same (corpus, text) leaves one
\* Content row with that id and appends no ContentCreated event for it.
C1_IdempotentIngestion ==
    [][\A c \in Ids(content) :
         /\ Cardinality(RowsWithId(content', c)) = 1
         /\ Ids(CreateEventsFor(events', c)) = Ids(CreateEventsFor(events, c))]_vars

\* C2: a ContentCreated event is appended only for the items whose Content
\* row the call inserted: every event a step appends carries the id of a
\* Content row the same step made visible.
C2_EventsOnlyForInserted ==
    [][\A e \in events' :
         (e.id \notin Ids(events) /\ e.payload.payload.tag = "CreateContent")
            => e.payload.payload.content_id \in Ids(content') \ Ids(content)]_vars

\* every visible Content row has a ContentCreated event carrying its id
C3_EveryContentHasEvent ==
    \A r \in content : CreateEventsFor(events, r.id) # {}

\* a transaction that ends without appending its events leaves none of the
\* rows it inserted and returns an error to its caller
C3_FailedEventInsertRollsBack ==
    \A p \in Procs :
        (txn[p].pc = "events" /\ txn'[p].pc = "idle" /\ events' = events)
            => /\ Ids(txn[p].inserted) \cap Ids(content') = {}
               /\ lastOp'.op = "add_content"
               /\ lastOp'.proc = p
               /\ lastOp'.res # "Ok"

\* C3: content insertion and event append are one atomic unit.  In every
\* visible state each Content row has a ContentCreated event with its id,
\* and a failed event insert persists no Content row of the call and
\* returns an error.
C3_AtomicIngestion ==
    []C3_EveryContentHasEvent /\ [][C3_FailedEventInsertRollsBack]_vars

\* C3 witness: an event insert has just failed and the rows of its call are
\* not visible, while the rows a concurrent call committed are
C3_Witness ==
    /\ lastOp.op = "add_content" /\ lastOp.at = "events" /\ lastOp.res = "LogicError"
    /\ content # {}
    /\ lastOp.arg \cap Ids(content) = {}

\* a poll returns every row whose processed_at is NULL
C4_PollReturnsUnprocessed ==
    lastOp.op = "poll" =>
        /\ lastOp.res.res = "Ok"
        /\ \A e \in events : e.processed_at = None => e.payload \in lastOp.res.events

\* an unprocessed event stays unprocessed unless the step is a
\* mark_processed call for its id
C4_UnprocessedUntilMarked ==
    \A e \in events :
        e.processed_at = None =>
            \/ Unprocessed(events', e.id)
            \/ (lastOp'.op = "mark_event" /\ lastOp'.arg = e.id)

\* C4: re-delivery until acknowledged.  A committed event is returned by
\* every poll until mark_processed has been called for its id, whatever
\* operations interleave.
C4_RedeliveryUntilAcked ==
    []C4_PollReturnsUnprocessed /\ [][C4_UnprocessedUntilMarked]_vars

\* C4 witness: a poll after other calls (an ingestion, a mark of another
\* event) that still delivers an event committed before them
C4_Witness ==
    /\ lastOp.op = "poll"
    /\ Cardinality(lastOp.res.events) >= 2
    /\ \E e \in events : e.processed_at # None

\* C5: once mark_processed(event_id) has succeeded the event is marked, no
\* step resets processed_at to NULL, and no poll returns a marked event.
C5_ProcessedStaysProcessed ==
    /\ [](lastOp.op = "mark_event" /\ lastOp.res = "Ok"
            => ~Unprocessed(events, lastOp.arg))
    /\ [](lastOp.op = "poll"
            => \A ev \in lastOp.res.events : Unprocessed(events, ev.id))
    /\ [][\A e \in events :
            e.processed_at # None => ~Unprocessed(events', e.id)]_vars

\* C5 witness: a poll that leaves out an event marked earlier
C5_Witness ==
    /\ lastOp.op = "poll"
    /\ \E e \in events : e.processed_at # None
    /\ \E e \in events : e.processed_at = None

\* C6: mark_processed on an event already marked returns success and
\* leaves the event row exactly as the first call left it.
C6_MarkIdempotent ==
    [][(/\ lastOp'.op = "mark_event"
        /\ lastOp'.res = "Ok"
        /\ ~Unprocessed(events, lastOp'.arg)
        /\ RowsWithId(events, lastOp'.arg) # {})
          => events' = events]_vars

\* C7: the outbox is append-only.  Every step keeps every event row, with
\* its id, payload and allocation_info; only processed_at may differ.
C7_OutboxAppendOnly ==
    [][\A e \in events :
         /\ Cardinality(RowsWithId(events', e.id)) = 1
         /\ \A f \in RowsWithId(events', e.id) :
               [f EXCEPT !.processed_at = None] = [e EXCEPT !.processed_at = None]]_vars

\* C7 witness: the table holds a marked row beside rows appended after it
C7_Witness ==
    /\ Cardinality(events) >= 3
    /\ \E e, f \in events :
         e.processed_at # None /\ f.processed_at = None /\ e.id < f.id

----------------------------------------------------------------------------
(* Properties of the completion tracker *)

FindRows(repo_id, binding, content_id) ==
    ContentWithUnappliedExtractor(content, repo_id, binding, content_id).rows

\* C8: completion monotonicity.  Once mark_processed(content_id,
\* binding_id) has updated the content's row, no find_unprocessed for a
\* binding with that id returns the content, whatever its repository,
\* filters and content_id arguments and whatever calls came between.
C8_CompletionMonotonic ==
    /\ \A pair \in completed :
         \A b \in {x \in Bindings : x.id = pair[2]} :
            \A repo_id \in Repos, cid \in ContentIdArgs :
               pair[1] \notin Ids(FindRows(repo_id, b, cid))
    /\ lastOp.op = "find" =>
         \A r \in lastOp.res.rows : <<r.id, lastOp.arg.binding.id>> \notin completed

\* C8 witness: a find for a binding returns nothing because the one content
\* its filter selects was marked for it, and for another binding as well
C8_Witness ==
    /\ lastOp.op = "find"
    /\ lastOp.arg.binding = BindingEq
    /\ lastOp.arg.repo_id = "r1"
    /\ lastOp.res.rows = {}
    /\ TextHello.id \in Ids(content)
    /\ <<TextHello.id, BindingEq.id>> \in completed
    /\ <<TextHello.id, BindingNeq.id>> \in completed

MarkerOf(row, binding_id) ==
    IF binding_id \in DOMAIN row.extractor_bindings_state
    THEN row.extractor_bindings_state[binding_id]
    ELSE 0

\* C9: no lost completion updates.  When mark_processed has updated a
\* content's row for two different binding ids, in either order, the row's
\* completion map has a non-zero marker for both.
C9_NoLostUpdates ==
    \A p1 \in completed, p2 \in completed :
        (p1[1] = p2[1] /\ p1[2] # p2[2]) =>
            /\ RowsWithId(content, p1[1]) # {}
            /\ \A r \in RowsWithId(content, p1[1]) :
                  MarkerOf(r, p1[2]) >= 1 /\ MarkerOf(r, p2[2]) >= 1

\* C9 witness: the second of two marks for different bindings on one
\* content has just returned
C9_Witness ==
    /\ lastOp.op = "mark_content"
    /\ \E pair \in completed :
         pair[1] = lastOp.arg[1] /\ pair[2] # lastOp.arg[2]
    /\ <<lastOp.arg[1], lastOp.arg[2]>> \in completed

\* metadata[field] as the filter compares it, with a string: the text of the
\* entry, None when the metadata has no entry for the field
MetadataGet(metadata, field) ==
    IF field \in DOMAIN metadata THEN Some(metadata[field].lit) ELSE None

\* Eq: metadata[field] equals value; Neq: metadata[field] differs from value
SatisfiesAsValue(metadata, filter) ==
    IF filter.op = "Eq"
    THEN MetadataGet(metadata, filter.field) = Some(filter.value.lit)
    ELSE MetadataGet(metadata, filter.field) # Some(filter.value.lit)

\* the field is present, not null, and its text (a string's content, a
\* number's literal) equals the filter's string (Eq) or differs from it (Neq)
SatisfiesAsText(metadata, filter) ==
    /\ filter.field \in DOMAIN metadata
    /\ metadata[filter.field].kind # "null"
    /\ IF filter.op = "Eq"
       THEN metadata[filter.field].lit = filter.value.lit
       ELSE metadata[filter.field].lit # filter.value.lit

\* the rows find_unprocessed is to return, Satisfies deciding one filter
Expected(Satisfies(_, _), repo_id, binding, content_id) ==
    {r \in content :
        /\ r.repository_id = repo_id
        /\ MarkerOf(r, binding.id) = 0
        /\ \A i \in 1..Len(binding.filters) : Satisfies(r.metadata, binding.filters[i])
        /\ content_id # None => r.id = content_id[1]}

\* C10 as stated: find_unprocessed returns exactly the rows of the corpus
\* with no marker for the binding whose metadata[field] equals (Eq) or
\* differs from (Neq) the value of every filter, restricted to content_id
\* when it is supplied.
C10_FindExactAsValue ==
    \A repo_id \in Repos, b \in Bindings, cid \in ContentIdArgs :
        FindRows(repo_id, b, cid) = Expected(SatisfiesAsValue, repo_id, b, cid)

\* C10 amended: the same, a filter being satisfied only by a row that has a
\* non-null metadata[field], by comparing its text with the filter's string.
C10_FindExactAsText ==
    /\ \A repo_id \in Repos, b \in Bindings, cid \in ContentIdArgs :
         ContentWithUnappliedExtractor(content, repo_id, b, cid) =
            [res |-> "Ok", rows |-> Expected(SatisfiesAsText, repo_id, b, cid)]
    /\ lastOp.op = "find" =>
         lastOp.res.rows = Expected(SatisfiesAsText, lastOp.arg.repo_id,
                                    lastOp.arg.binding, lastOp.arg.content_id)

\* C10 witness: with a string, a number and no topic stored, a find for the
\* Neq binding returns the one row whose topic is present and differs
C10_Witness ==
    /\ lastOp.op = "find"
    /\ lastOp.arg.binding = BindingNeq
    /\ lastOp.arg.repo_id = "r1"
    /\ Ids(content) = {TextHello.id, TextNumber.id, TextBare.id}
    /\ Ids(lastOp.res.rows) = {TextNumber.id}

----------------------------------------------------------------------------
(* Job queue claims *)

WorkRow(table, id) == CHOOSE m \in table : m.id = id

ReturnedUnassigned(table, id) == id \in Ids(UnallocatedWork(table))

ReturnedForWorker(table, id) == \E wk \in Workers : id \in Ids(WorkForWorker(table, wk))

\* C11: enqueue is idempotent.  An enqueue of a Work whose id is already in
\* the table returns without error and leaves exactly one row with that id.
C11_EnqueueIdempotent ==
    [][(lastOp'.op = "insert_work" /\ lastOp'.arg.id \in Ids(work))
        => /\ lastOp'.res = "Ok"
           /\ Cardinality(RowsWithId(work', lastOp'.arg.id)) = 1]_vars

StateRank(st) ==
    CASE st = "Unknown" -> 0
      [] st = "Pending" -> 1
      [] st = "InProgress" -> 2
      [] st = "Completed" -> 3
      [] st = "Failed" -> 3

\* C12 as stated: the state of a Work row only moves forward, and a row in
\* Completed or Failed keeps its state.
C12_ForwardOnly ==
    [][\A m \in work, n \in work' :
          (n.id = m.id /\ m.state # "Unknown" /\ n.state # "Unknown")
            => /\ StateRank(n.state) >= StateRank(m.state)
               /\ (m.state \in {"Completed", "Failed"} => n.state = m.state)]_vars

\* C12, amended: the state of a Work row changes only in an advance_state
\* call for that row, which sets it to the state the caller passes; enqueue
\* and assign leave the state of every stored row as it is.
C12_StateSetOnlyByAdvance ==
    [][\A m \in work, n \in work' :
          (n.id = m.id /\ n.state # m.state)
            => /\ lastOp'.op = "update_work_state"
               /\ lastOp'.arg = <<m.id, n.state>>]_vars

\* a completed row has been set back to Pending by advance_state
C12_Witness ==
    /\ lastOp.op = "update_work_state"
    /\ lastOp.arg[2] = "Pending"
    /\ lastOp.arg[1] \in workDone
    /\ lastOp.arg[1] \in Ids(UnallocatedWork(work)) \cup Ids(WorkForWorker(work, "w1"))

\* C13 as stated: a Work item advance_state has set to Completed is returned
\* by no later unassigned() or for_worker() call.
C13_CompletedNeverReturned ==
    \A id \in workDone :
        /\ ~ReturnedUnassigned(work, id)
        /\ ~ReturnedForWorker(work, id)

\* C13, amended: advance_state(id, Completed) leaves the row Completed, a
\* Completed row is returned by neither query, and a Completed row comes to
\* be returned again only by an advance_state call that sets it to Pending.
C13_CompletedNotReturned ==
    /\ [](/\ (lastOp.op = "update_work_state" /\ lastOp.arg[2] = "Completed")
                => \A m \in RowsWithId(work, lastOp.arg[1]) : m.state = "Completed"
          /\ \A m \in work :
                m.state = "Completed"
                  => /\ ~ReturnedUnassigned(work, m.id)
                     /\ ~ReturnedForWorker(work, m.id)
          /\ (lastOp.op = "unallocated_work"
                => \A m \in lastOp.res : m.state # "Completed")
          /\ (lastOp.op = "work_for_worker"
                => \A w \in lastOp.res : w.work_state # "Completed"))
    /\ [][\A m \in work :
            (/\ m.state = "Completed"
             /\ (ReturnedUnassigned(work', m.id) \/ ReturnedForWorker(work', m.id)))
              => /\ lastOp'.op = "update_work_state"
                 /\ lastOp'.arg = <<m.id, "Pending">>]_vars

\* a query is answered while a row is Completed and another is pending
C13_Witness ==
    /\ lastOp.op \in {"unallocated_work", "work_for_worker"}
    /\ lastOp.res # {}
    /\ \E m \in work : m.state = "Completed" /\ m.id \in workDone

\* C14: unassigned() returns exactly the stored Work rows whose state is
\* Pending and whose worker id is NULL.
C14_UnassignedExact ==
    lastOp.op = "unallocated_work"
      => /\ lastOp.res \subseteq work
         /\ \A m \in work :
               m \in lastOp.res <=> (m.state = "Pending" /\ m.worker_id = None)

\* the answer holds a row and leaves out a pending row that has a worker
C14_Witness ==
    /\ lastOp.op = "unallocated_work"
    /\ lastOp.res # {}
    /\ \E m \in work : m.state = "Pending" /\ m.worker_id # None

\* C15: for_worker(worker_id) returns exactly the Work items whose stored
\* row has that worker id and state Pending.
C15_ForWorkerExact ==
    lastOp.op = "work_for_worker"
      => /\ \A w \in lastOp.res : \E m \in work : w = WorkFromModel(m)
         /\ \A m \in work :
               WorkFromModel(m) \in lastOp.res
                 <=> (m.state = "Pending" /\ m.worker_id = <<lastOp.arg>>)

\* the answer leaves out a row of the worker that is no longer pending
C15_Witness ==
    /\ lastOp.op = "work_for_worker"
    /\ lastOp.res # {}
    /\ \E m \in work : m.state = "InProgress" /\ m.worker_id = <<lastOp.arg>>
    /\ Cardinality(work) = 2

----------------------------------------------------------------------------
(* Repository claims *)

BindingSet(repository) ==
    {repository.extractor_bindings[i] : i \in DOMAIN repository.extractor_bindings}

RowsNamed(table, name) == {r \in table : r.name = name}

BindingAddedFor(table, name, binding_id) ==
    {e \in table :
        e.payload.payload = [tag |-> "ExtractorBindingAdded",
                             repository |-> name, id |-> binding_id]}

\* C17: when upsert_repository returns Ok, the row of the repository and a
\* BindingAdded event for each of its bindings are stored; a call whose
\* transaction was rolled back does not return Ok.
C17_SuccessMeansDurable ==
    lastOp.op = "upsert_repository"
      => /\ lastOp.at = "rollback" => lastOp.res # "Ok"
         /\ lastOp.res = "Ok"
              => /\ RowsNamed(repos, lastOp.arg.name) # {}
                 /\ \A b \in BindingSet(lastOp.arg) :
                       BindingAddedFor(events, lastOp.arg.name, b.id) # {}

C19_UpsertReplaces ==
    [][(/\ lastOp'.op = "upsert_repository"
        /\ lastOp'.res = "Ok"
        /\ RowsNamed(repos, lastOp'.arg.name) # {})
        => /\ Cardinality(RowsNamed(repos', lastOp'.arg.name)) = 1
           /\ \A r \in RowsNamed(repos', lastOp'.arg.name) :
                 /\ RepositoryFromModel(r).extractor_bindings = BindingSet(lastOp'.arg)
                 /\ RepositoryFromModel(r).metadata = lastOp'.arg.metadata]_vars

\* the same for the calls whose transaction commits
C19_CommittedUpsertReplaces ==
    [][(/\ lastOp'.op = "upsert_repository"
        /\ lastOp'.at = "commit"
        /\ RowsNamed(repos, lastOp'.arg.name) # {})
        => /\ Cardinality(RowsNamed(repos', lastOp'.arg.name)) = 1
           /\ \A r \in RowsNamed(repos', lastOp'.arg.name) :
                 /\ RepositoryFromModel(r).extractor_bindings = BindingSet(lastOp'.arg)
                 /\ RepositoryFromModel(r).metadata = lastOp'.arg.metadata]_vars

----------------------------------------------------------------------------
(* Index claims *)

\* C20: create_vector_index is all-or-nothing with respect to the
\* collaborator.  When vectordb.create_index fails, the call returns an
\* error and the index table is as it was before the call: the row the
\* call inserted is in the table neither at the return nor for as long as
\* no later call inserts it.
C20_CollaboratorFailureRollsBack ==
    /\ []((lastOp.op = "create_vector_index" /\ lastOp.at = "vectordb")
            => /\ lastOp.res # "Ok"
               /\ lastOp.arg.inserted \cap indexes = {})
    /\ [][\A p \in Procs :
            (/\ idxTxn[p].pc = "vectordb"
             /\ idxTxn'[p].pc = "idle"
             /\ lastOp'.op = "create_vector_index"
             /\ lastOp'.at = "vectordb")
              => /\ indexes' = indexes
                 /\ idxTxn[p].inserted \cap indexes' = {}
                 /\ lastOp'.res # "Ok"]_vars

\* the collaborator has failed for a call that had inserted its row, while
\* another index is stored
C20_Witness ==
    /\ lastOp.op = "create_vector_index"
    /\ lastOp.at = "vectordb"
    /\ lastOp.arg.inserted # {}
    /\ indexes # {}

\* C21: create_vector_index on a name already stored.  The insert inserts
\* nothing and is not an error: the call goes on to the collaborator, the
\* stored row of that name stays as it is whatever the call supplies, and
\* the call returns Ok when the collaborator succeeds.
C21_ConflictIsNoOp ==
    [][\A p \in Procs :
          (/\ idxTxn[p].pc = "vectordb"
           /\ idxTxn'[p].pc = "idle"
           /\ idxTxn[p].index[1].name \in IndexNames(indexes))
            => /\ indexes' = indexes
               /\ lastOp'.op = "create_vector_index"
               /\ lastOp'.proc = p
               /\ lastOp'.at = "commit" => lastOp'.res = "Ok"
               /\ lastOp'.res # "Ok" => lastOp'.at = "vectordb"]_vars

\* a call for a stored name with another extractor has returned Ok and the
\* stored row is not the one the call supplied
C21_Witness ==
    /\ lastOp.op = "create_vector_index"
    /\ lastOp.at = "commit"
    /\ lastOp.res = "Ok"
    /\ lastOp.arg.inserted = {}
    /\ lastOp.arg.index \notin indexes
    /\ lastOp.arg.index.name \in IndexNames(indexes)

\* C22: when the collaborator fails, the error the caller receives is of
\* the vector-backend kind (RepositoryError::VectorDb).
C22_VectorDbErrorKind ==
    (lastOp.op = "create_vector_index" /\ lastOp.at = "vectordb")
      => lastOp.res = "VectorDb"

----------------------------------------------------------------------------
(* Filter claims *)

HasNonStringFilter(binding) ==
    \E i \in DOMAIN binding.filters : binding.filters[i].value.kind # "string"

\* C23: a find call with a binding one of whose filter values is not a
\* string returns an error to its caller; it does not panic.
C23_NonStringFilterIsError ==
    (lastOp.op = "find" /\ HasNonStringFilter(lastOp.arg.binding))
      => lastOp.res.res \notin {"Ok", "panic"}

\* C30: a row find returns has an entry for the field of every filter of
\* the binding, Eq or Neq; for a Neq filter the entry, as text, differs from
\* the value.  A row with no entry for the field is never returned.
C30_MissingFieldNeverReturned ==
    (lastOp.op = "find" /\ lastOp.res.res = "Ok")
      => \A r \in lastOp.res.rows :
            \A i \in DOMAIN lastOp.arg.binding.filters :
               LET filter == lastOp.arg.binding.filters[i]
               IN  /\ filter.field \in DOMAIN r.metadata
                   /\ filter.op = "Neq"
                        => r.metadata[filter.field].lit # filter.value.lit

\* a Neq query has returned a row while a row of the repository with no
\* entry for the field is stored
C30_Witness ==
    /\ lastOp.op = "find"
    /\ lastOp.arg.binding = BindingNeq
    /\ lastOp.arg.content_id = None
    /\ lastOp.res.rows # {}
    /\ TextBare.id \in Ids(content)
    /\ TextBare.id \notin Ids(lastOp.res.rows)

----------------------------------------------------------------------------
(* Extractor output claims *)

SamePair(a, b) == a.content_id = b.content_id /\ a.extractor_id = b.extractor_id

\* C24: the attributes table holds at most one row for each (content id,
\* extractor name) pair; after an add_attributes call the data of the row
\* of its pair is the output the call supplied, and the data of a row
\* changes only in an add_attributes call for its pair.
C24_OneRowPerPairLatestData ==
    /\ [](/\ \A a \in attributes, b \in attributes : SamePair(a, b) => a = b
          /\ lastOp.op = "add_attributes"
               => \E a \in attributes :
                     /\ a.content_id = lastOp.arg.extracted_attributes.content_id
                     /\ a.extractor_id = lastOp.arg.extracted_attributes.extractor_name
                     /\ a.data = lastOp.arg.extracted_attributes.attributes)
    /\ [][\A a \in attributes :
            \E b \in attributes' :
               /\ SamePair(a, b)
               /\ b.data # a.data
                    => /\ lastOp'.op = "add_attributes"
                       /\ lastOp'.arg.extracted_attributes.id = a.id
                       /\ b.data = lastOp'.arg.extracted_attributes.attributes]_vars

\* an extractor has been run again on a content with another output, which
\* has replaced the first
C24_Witness ==
    /\ lastOp.op = "add_attributes"
    /\ lastOp.arg.extracted_attributes.attributes = JString("b")
    /\ lastOp.arg.index_name = "i2"
    /\ \E a \in attributes :
          /\ a.id = lastOp.arg.extracted_attributes.id
          /\ a.index_name = "i1"
          /\ a.data = JString("b")
    /\ \E a \in attributes : a.id # lastOp.arg.extracted_attributes.id

\* C25: create_chunks with a chunk whose id is stored returns Ok, keeps
\* every stored chunk row as it is and leaves one row for each id; the
\* chunks of the call whose id is not stored are inserted.
C25_ChunksInsertOnly ==
    [][lastOp'.op = "create_chunks"
        => LET list == lastOp'.arg.chunks
           IN  /\ lastOp'.res = "Ok"
               /\ chunks \subseteq chunks'
               /\ \A c \in chunks', d \in chunks' : c.chunk_id = d.chunk_id => c = d
               /\ ChunkIds(chunks') =
                     ChunkIds(chunks) \cup {list[i].chunk_id : i \in DOMAIN list}]_vars

\* a call with a stored chunk and a new one, for another index, has
\* returned: the stored row still names the first index
C25_Witness ==
    /\ lastOp.op = "create_chunks"
    /\ lastOp.arg.chunks = <<ChunkA, ChunkB>>
    /\ lastOp.arg.index_name = "i2"
    /\ ChunkModel(ChunkA, "i1") \in chunks
    /\ ChunkModel(ChunkB, "i2") \in chunks

----------------------------------------------------------------------------
(* Identity claims *)

\* C26: deterministic identity.  Two derivations of one kind from equal
\* tuples of hashed strings return the same id, whatever the other fields
\* given to the constructor and whatever the store holds; a Work derived
\* from the tuple of a stored row has the id of that row.
C26_DeterministicIdentity ==
    /\ []((lastOp.op = "derive" /\ lastOp.proc = "work")
            => \A m \in work :
                  <<m.content_id, m.repository_id, m.index_name, m.extractor>>
                        = lastOp.arg.inputs
                    => m.id = lastOp.res)
    /\ [][(/\ lastOp.op = "derive"
           /\ lastOp'.op = "derive"
           /\ lastOp'.proc = lastOp.proc
           /\ lastOp'.arg.inputs = lastOp.arg.inputs)
            => lastOp'.res = lastOp.res]_vars

\* a Work has been derived with a worker and other parameters from the
\* tuple of a row stored with no worker
C26_Witness ==
    /\ lastOp.op = "derive"
    /\ lastOp.proc = "work"
    /\ lastOp.arg.others = <<JString("a"), Some("w1")>>
    /\ \E m \in work :
          /\ m.id = lastOp.res
          /\ m.worker_id = None
          /\ m.extractor_params = JNull

----------------------------------------------------------------------------
(* Job queue frame claims *)

\* C27: assign_work sets the worker id of every stored row the allocation
\* names to the worker it maps the row to, whatever the row's state and
\* worker; every other column and every other row stay as they are, and no
\* row is created or removed.
C27_AssignFrame ==
    [][lastOp'.op = "assign_work"
        => LET allocation == lastOp'.arg
           IN  /\ Ids(work') = Ids(work)
               /\ Cardinality(work') = Cardinality(work)
               /\ \A m \in work :
                     \E n \in work' :
                        /\ n.id = m.id
                        /\ n.state = m.state
                        /\ n.content_id = m.content_id
                        /\ n.index_name = m.index_name
                        /\ n.extractor = m.extractor
                        /\ n.extractor_params = m.extractor_params
                        /\ n.repository_id = m.repository_id
                        /\ n.worker_id = IF m.id \in DOMAIN allocation
                                         THEN <<allocation[m.id]>>
                                         ELSE m.worker_id]_vars

\* an allocation naming a stored Completed row and an id that is not
\* stored has been applied: the row has the worker of the allocation
C27_Witness ==
    /\ lastOp.op = "assign_work"
    /\ DOMAIN lastOp.arg = WorkIds
    /\ Cardinality(work) = 1
    /\ \A m \in work :
          /\ m.state = "Completed"
          /\ m.worker_id = <<lastOp.arg[m.id]>>
          /\ lastOp.arg[m.id] = "w2"

\* C28: update_work_state sets the state of the row with the id to the
\* state passed, whatever state the row is in; the worker id of the row and
\* every other row stay as they are.
C28_AdvanceUnconditional ==
    [][lastOp'.op = "update_work_state"
        => /\ Ids(work') = Ids(work)
           /\ Cardinality(work') = Cardinality(work)
           /\ \A m \in work :
                 IF m.id = lastOp'.arg[1]
                 THEN [m EXCEPT !.state = lastOp'.arg[2]] \in work'
                 ELSE m \in work']_vars

\* a row that had been set to Completed is InProgress after the call, and
\* still has its worker
C28_Witness ==
    /\ lastOp.op = "update_work_state"
    /\ lastOp.arg[2] = "InProgress"
    /\ lastOp.arg[1] \in workDone
    /\ \E m \in work :
          /\ m.id = lastOp.arg[1]
          /\ m.state = "InProgress"
          /\ m.worker_id = Some("w2")

----------------------------------------------------------------------------
(* Poll claims *)

Undecodable(e) == "payload" \notin DOMAIN e.payload

\* C29: a poll made while an unprocessed row holds a payload that does not
\* decode returns an error and delivers no event, at every poll for as long
\* as the row is unmarked; with no such row the poll delivers every
\* unprocessed event.
C29_PollAllOrNothing ==
    lastOp.op = "poll"
      => IF \E e \in events : e.processed_at = None /\ Undecodable(e)
         THEN /\ lastOp.res.res = "Err"
              /\ lastOp.res.events = {}
         ELSE /\ lastOp.res.res = "Ok"
              /\ lastOp.res.events =
                    {e.payload : e \in {x \in events : x.processed_at = None}}

\* a poll has failed while an event that decodes is unprocessed and another
\* row has been marked
C29_Witness ==
    /\ lastOp.op = "poll"
    /\ lastOp.res.res = "Err"
    /\ \E e \in events : e.processed_at = None /\ ~Undecodable(e)
    /\ \E e \in events : e.processed_at # None

\* a poll succeeds again once the row that does not decode has been marked
C29_WitnessRecovered ==
    /\ lastOp.op = "poll"
    /\ lastOp.res.res = "Ok"
    /\ lastOp.res.events # {}
    /\ \E e \in events : e.processed_at # None /\ Undecodable(e)

----------------------------------------------------------------------------
(* Repository frame claims *)

\* C31: an upsert_repository call for a name already stored leaves the
\* data_connectors of the stored row as they are, whatever connectors the
\* call supplies; when the call writes the row, only extractor_bindings and
\* metadata take the values of the call.  The rows of other names are
\* unchanged.
C31_ConnectorsKept ==
    [][(/\ lastOp'.op = "upsert_repository"
        /\ RowsNamed(repos, lastOp'.arg.name) # {})
        => /\ \A r \in RowsNamed(repos, lastOp'.arg.name) :
                 \E n \in repos' :
                    /\ n.name = r.name
                    /\ n.data_connectors = r.data_connectors
                    /\ \/ n = r
                       \/ /\ n.extractor_bindings
                               = RepositoryModel(lastOp'.arg).extractor_bindings
                          /\ n.metadata = RepositoryModel(lastOp'.arg).metadata
           /\ Cardinality(RowsNamed(repos', lastOp'.arg.name)) = 1
           /\ \A r \in repos : r.name # lastOp'.arg.name => r \in repos']_vars

\* an upsert that supplies a connector has written new metadata into a row
\* stored with no connector: the row still has none
C31_Witness ==
    /\ lastOp.op = "upsert_repository"
    /\ lastOp.at = "commit"
    /\ lastOp.arg.data_connectors = <<Gmail>>
    /\ \E r \in repos :
          /\ r.name = lastOp.arg.name
          /\ r.data_connectors = Some(<<>>)
          /\ r.metadata = Some(lastOp.arg.metadata)
          /\ RepositoryFromModel(r).extractor_bindings = BindingSet(lastOp.arg)

====
